---- MODULE Spec2Model ----
(***************************************************************************)
(* State-machine model of PhantomContextProvider: the deep-link session    *)
(* protocol between a dApp and the Phantom wallet.  The four useState      *)
(* cells are the Session; waitForResponse registers one 'url' listener per *)
(* outstanding operation; inbound 'url' events are delivered to every live *)
(* listener in registration order; promise.finally callbacks run as        *)
(* microtasks before the next task and remove the listener.                *)
(***************************************************************************)
EXTENDS Naturals, Sequences, FiniteSets

\* ------------------------------------------------------------------ bounds
\* number of operations that reach waitForResponse in one run
MaxOps == 3

\* ------------------------------------------------------------------ values
Null == "null"
Undefined == "undefined"

\* keypair state cell: 0 is null, n > 0 is the n-th keypair nacl.box.keyPair() produced
NoKeypair == 0

\* public encryption keys the wallet side may send back
RemoteKeys == {"R1"}

\* a shared secret is determined by the dApp keypair and the remote public key
NullSecret == [dapp |-> NoKeypair, remote |-> Null]
Secrets == [dapp : 1..MaxOps, remote : RemoteKeys]

RedirectRoutes == {"onConnect", "onSignTransaction", "onSignMessage"}

RouteOf(op) ==
  CASE op = "connect" -> "onConnect"
    [] op = "signTransaction" -> "onSignTransaction"
    [] op = "signMessage" -> "onSignMessage"

\* pathnames of inbound URLs, as sequences of the pieces they contain
Pathnames ==
  { <<"onConnect">>, <<"onSignTransaction">>, <<"onSignMessage">>,
    <<"other">>, <<"onConnect", "onSignMessage">> }

\* variant: the listener does not filter by its own route
RouteTestAnyRoute(redirectRoute, pathname) == Len(pathname) > 0

\* new RegExp(redirectRoute).test(parsedUrl.pathname): an unanchored search
RouteTest(redirectRoute, pathname) ==
  \E i \in 1..Len(pathname) : pathname[i] = redirectRoute

\* variant: the error test never fires
TruthyNever(v) == FALSE

\* truthiness of a string-or-null value
Truthy(v) == v # Null /\ v # ""

\* ---------------------------------------------------------------- payloads
\* the plaintext of an envelope: text that is not JSON, JSON null, or an object
\* whose absent members read as undefined
Body(json, sess, pk, sig, tx) ==
  [json |-> json, session |-> sess, public_key |-> pk, signature |-> sig, transaction |-> tx]

Bodies ==
  { Body("invalid", Undefined, Undefined, Undefined, Undefined),
    Body("null", Undefined, Undefined, Undefined, Undefined),
    Body("object", Undefined, Undefined, Undefined, Undefined),
    Body("object", "s1", "P1", Undefined, Undefined),
    Body("object", "s1", "notakey", Undefined, Undefined),
    Body("object", Undefined, "P1", Undefined, Undefined),
    Body("object", Undefined, Undefined, "b58(SIG1)", Undefined),
    Body("object", Undefined, Undefined, "b58(SIG2)", Undefined),
    Body("object", Undefined, Undefined, Undefined, "b58(TX1)") }

\* bs58.decode: the bytes a base-58 text stands for; "throws" for anything else
bs58decode(text) ==
  CASE text = "b58(SIG1)" -> "SIG1"
    [] text = "b58(SIG2)" -> "SIG2"
    [] text = "b58(TX1)" -> "TX1"
    [] OTHER -> "throws"

\* new PublicKey(value): accepted identity keys
ValidPublicKey(value) == value \in {"P1"}

\* the (data, nonce) pair of a callback: absent, or a box sealed under some key
\* (NullSecret: bytes that authenticate under no key)
Envelope(key, body) == [present |-> TRUE, key |-> key, body |-> body]
NoEnvelope == [present |-> FALSE, key |-> NullSecret,
               body |-> Body("invalid", Undefined, Undefined, Undefined, Undefined)]

\* variant: the secret is derived without the callback's remote key
beforeIgnoresRemote(remotePk, dAppKeypair) == [dapp |-> dAppKeypair, remote |-> Null]

\* nacl.box.before(remotePublicKey, secretKey)
before(remotePk, dAppKeypair) == [dapp |-> dAppKeypair, remote |-> remotePk]

Ok(v) == [threw |-> FALSE, error |-> "", value |-> v]
Throw(e) ==
  [threw |-> TRUE, error |-> e,
   value |-> Body("invalid", Undefined, Undefined, Undefined, Undefined)]

\* variant: the result of nacl.box.open.after is not checked against the key
decryptPayloadAnyKey(env, secret) ==
  IF ~env.present THEN Throw("Expected String")
  ELSE IF env.body.json = "invalid" THEN Throw("SyntaxError")
  ELSE Ok(env.body)

decryptPayload(env, secret) ==
  IF ~env.present THEN Throw("Expected String")
  ELSE IF env.key # secret \/ env.key = NullSecret THEN Throw("Unable to decrypt data")
  ELSE IF env.body.json = "invalid" THEN Throw("SyntaxError")
  ELSE Ok(env.body)

\* nacl.box.after(JSON.stringify(payload), nonce, sharedSecret)
encryptPayload(payload, secret) == Envelope(secret, payload)

\* -------------------------------------------------------------------- state
VARIABLES
  publicKey,     \* useState cell: identity key, or Null
  keypair,       \* useState cell: dApp keypair, or NoKeypair
  sharedSecret,  \* useState cell: shared secret, or NullSecret
  session,       \* useState cell: session id, or Null
  rendered,      \* the cells as captured by the sign callbacks of the last render
  waiters,       \* the registered 'url' listeners, one record per waitForResponse
                 \* call whose listener is still registered, in registration order
  microtasks,    \* queued promise.finally callbacks (positions in waiters)
  subscribed,    \* number of Linking.addEventListener calls
  removed,       \* number of event.remove() calls
  opens,         \* number of Linking.openURL calls
  last,          \* the step just taken and what its caller observed
  stale          \* keypairs of the connect calls that were pending, and are still
                 \* registered, when disconnect was last called (history only)

vars == <<publicKey, keypair, sharedSecret, session, rendered, waiters, microtasks,
          subscribed, removed, opens, last, stale>>

Cells == [publicKey |-> publicKey, keypair |-> keypair,
          sharedSecret |-> sharedSecret, session |-> session]

NullCells == [publicKey |-> Null, keypair |-> NoKeypair,
              sharedSecret |-> NullSecret, session |-> Null]

Captured == [keypair |-> keypair, sharedSecret |-> sharedSecret, session |-> session]

\* op: the step; result: what the caller of a sign function or connect got at
\* once ("threw", "rejected", "pending"); key: the secret a request was sealed under
\* ev: the pathname and errorCode of the inbound event a deliver step handled
\* opened: how the Linking.openURL promise of a dispatching call ended ("ok",
\* "failed"); listening: whether a pending listener of the call's route was
\* registered when openURL was called
NoEvent == [pathname |-> <<>>, errorCode |-> Null]
Step(op, result, key) ==
  [op |-> op, result |-> result, key |-> key, ev |-> NoEvent,
   opened |-> "none", listening |-> FALSE]

Init ==
  /\ publicKey = Null
  /\ keypair = NoKeypair
  /\ sharedSecret = NullSecret
  /\ session = Null
  /\ rendered = [keypair |-> NoKeypair, sharedSecret |-> NullSecret, session |-> Null]
  /\ waiters = <<>>
  /\ microtasks = <<>>
  /\ subscribed = 0
  /\ removed = 0
  /\ opens = 0
  /\ last = Step("init", "none", NullSecret)
  /\ stale = {}

\* a task (a call from the application or an inbound event) starts only when
\* the microtask queue has drained
Idle == microtasks = <<>>

SetCells(c) ==
  /\ publicKey' = c.publicKey
  /\ keypair' = c.keypair
  /\ sharedSecret' = c.sharedSecret
  /\ session' = c.session

\* ---------------------------------------------------------- waitForResponse
\* a pending promise with its listener; by: the event that settled it
NoInbound == [pathname |-> <<>>, errorCode |-> Null, pk |-> Null, env |-> NoEnvelope]

NewWaiter(op, dAppKeypair, secret) ==
  [op |-> op, keypair |-> dAppKeypair, secret |-> secret,
   state |-> "pending", value |-> "", calls |-> 0, by |-> NoInbound]

\* resolve / reject of a promise: only the first call settles it
Settle(w, state, value, ev) ==
  IF w.state = "pending"
    THEN [w EXCEPT !.state = state, !.value = value, !.by = ev]
    ELSE w

\* connect's onResponse: the derived secret, the decrypted payload, then the
\* four setters in source order; an exception leaves the earlier setters applied
connectOnResponse(w, ev, c) ==
  IF ev.pk = Null THEN [threw |-> TRUE, error |-> "Expected String", value |-> "", cells |-> c]
  ELSE
    LET sharedSecretDapp == before(ev.pk, w.keypair)
        connectData == decryptPayload(ev.env, sharedSecretDapp)
        c2 == [c EXCEPT !.keypair = w.keypair, !.sharedSecret = sharedSecretDapp]
        c3 == [c2 EXCEPT !.session = connectData.value.session]
        c4 == [c3 EXCEPT !.publicKey = connectData.value.public_key]
    IN  IF connectData.threw
          THEN [threw |-> TRUE, error |-> connectData.error, value |-> "", cells |-> c]
        ELSE IF connectData.value.json = "null"
          THEN [threw |-> TRUE, error |-> "TypeError", value |-> "", cells |-> c2]
        ELSE IF ~ValidPublicKey(connectData.value.public_key)
          THEN [threw |-> TRUE, error |-> "Invalid public key input", value |-> "", cells |-> c3]
        ELSE [threw |-> FALSE, error |-> "", value |-> "void", cells |-> c4]

\* variant: a sign handler that drops the session when the response is unusable
SignResultClears(data, text, c) ==
  IF data.threw \/ data.value.json = "null" \/ bs58decode(text) = "throws"
    THEN [threw |-> TRUE, error |-> "Error", value |-> "", cells |-> NullCells]
  ELSE [threw |-> FALSE, error |-> "", value |-> bs58decode(text), cells |-> c]

\* what both sign handlers do with the decrypted payload: decode the base-58
\* text of one member; the cells are not written
SignResult(data, text, c) ==
  IF data.threw
    THEN [threw |-> TRUE, error |-> data.error, value |-> "", cells |-> c]
  ELSE IF data.value.json = "null"
    THEN [threw |-> TRUE, error |-> "TypeError", value |-> "", cells |-> c]
  ELSE IF bs58decode(text) = "throws"
    THEN [threw |-> TRUE, error |-> "Expected String", value |-> "", cells |-> c]
  ELSE [threw |-> FALSE, error |-> "", value |-> bs58decode(text), cells |-> c]

\* signTransaction's onResponse: Transaction.from(bs58.decode(data.transaction))
signTransactionOnResponse(w, ev, c) ==
  LET signTransactionData == decryptPayload(ev.env, w.secret)
  IN  SignResult(signTransactionData, signTransactionData.value.transaction, c)

\* signMessage's responseHandler: bs58.decode(data.signature)
signMessageResponseHandler(w, ev, c) ==
  LET signMessageData == decryptPayload(ev.env, w.secret)
  IN  SignResult(signMessageData, signMessageData.value.signature, c)

Handler(w, ev, c) ==
  CASE w.op = "connect" -> connectOnResponse(w, ev, c)
    [] w.op = "signTransaction" -> signTransactionOnResponse(w, ev, c)
    [] w.op = "signMessage" -> signMessageResponseHandler(w, ev, c)

\* the 'url' listener of one waitForResponse call, run on one event
Listener(w, ev, c) ==
  IF ~RouteTest(RouteOf(w.op), ev.pathname) THEN [w |-> w, cells |-> c]
  ELSE IF Truthy(ev.errorCode)
    THEN [w |-> Settle(w, "rejected", "Error in Phantom Response", ev), cells |-> c]
  ELSE
    LET r == Handler(w, ev, c)
        called == [w EXCEPT !.calls = @ + 1]
    IN  [w |-> IF r.threw THEN Settle(called, "rejected", r.error, ev)
                          ELSE Settle(called, "resolved", r.value, ev),
         cells |-> r.cells]

\* the emitter calls the registered listeners in registration order
RECURSIVE Emit(_, _, _, _)
Emit(i, ev, ws, c) ==
  IF i > Len(ws) THEN [waiters |-> ws, cells |-> c]
  ELSE LET r == Listener(ws[i], ev, c)
       IN  Emit(i + 1, ev, [ws EXCEPT ![i] = r.w], r.cells)

\* variant: promise.then instead of promise.finally (cleanup on resolution only)
RECURSIVE SettledThenOnly(_, _, _)
SettledThenOnly(i, old, new) ==
  IF i > Len(old) THEN <<>>
  ELSE (IF old[i].state = "pending" /\ new[i].state = "resolved" THEN <<i>> ELSE <<>>)
       \o SettledThenOnly(i + 1, old, new)

\* the finally callbacks of the promises an emit settled, in settlement order
RECURSIVE Settled(_, _, _)
Settled(i, old, new) ==
  IF i > Len(old) THEN <<>>
  ELSE (IF old[i].state = "pending" /\ new[i].state # "pending" THEN <<i>> ELSE <<>>)
       \o Settled(i + 1, old, new)

\* variant: the finally callback does not remove the listener
UnsubscribeNothing(ws, i) == ws

\* promise.finally(() => event.remove()): the listener at position i is removed
Unsubscribe(ws, i) == SubSeq(ws, 1, i - 1) \o SubSeq(ws, i + 1, Len(ws))

\* --------------------------------------------------------- inbound callbacks
\* secrets someone outside can hold: those of dApp keys that are still in use
\* (a box sealed under any other key opens nowhere, like NullSecret's)
LiveKeypairs ==
  {waiters[i].keypair : i \in 1..Len(waiters)}
    \cup {waiters[i].secret.dapp : i \in 1..Len(waiters)}
    \cup {sharedSecret.dapp, rendered.sharedSecret.dapp}

KnownSecrets == {s \in Secrets : s.dapp \in LiveKeypairs}

Event(pathname, errorCode, pk, env) ==
  [pathname |-> pathname, errorCode |-> errorCode, pk |-> pk, env |-> env]

Events ==
  \* the wallet reports an error: errorCode (and errorMessage) only
  {Event(p, "4001", Null, NoEnvelope) : p \in Pathnames}
  \* a deep link with no parameters
    \cup {Event(p, Null, Null, NoEnvelope) : p \in Pathnames}
  \* a callback with key, nonce and data, errorCode absent or empty
    \cup {Event(p, e, pk, Envelope(k, b)) :
            p \in Pathnames, e \in {Null, ""}, pk \in RemoteKeys,
            k \in KnownSecrets, b \in Bodies}
    \cup {Event(p, e, pk, Envelope(NullSecret, NoEnvelope.body)) :
            p \in Pathnames, e \in {Null, ""}, pk \in RemoteKeys}

\* ------------------------------------------------------------------ actions
\* whether a pending listener of route is registered among ws
Listening(ws, route) ==
  \E i \in 1..Len(ws) : RouteOf(ws[i].op) = route /\ ws[i].state = "pending"

\* variant: Linking.openURL is called before waitForResponse
RequestOpensFirst(ws, w) ==
  [waiters |-> Append(ws, w), listening |-> Listening(ws, RouteOf(w.op))]

\* the tail of connect, signTransaction and signMessage: waitForResponse
\* registers the listener, then Linking.openURL is called
Request(ws, w) ==
  LET registered == Append(ws, w)
  IN  [waiters |-> registered, listening |-> Listening(registered, RouteOf(w.op))]

\* the promise Linking.openURL returns is dropped: whether it fulfils or
\* rejects, the caller holds the waitForResponse promise
Dispatch(op, w, key) ==
  /\ subscribed < MaxOps
  /\ waiters' = Request(waiters, w).waiters
  /\ subscribed' = subscribed + 1
  /\ opens' = opens + 1
  /\ \E opened \in {"ok", "failed"} :
       last' = [Step(op, "pending", key) EXCEPT
                  !.opened = opened, !.listening = Request(waiters, w).listening]

connect ==
  /\ Idle
  /\ LET dAppKeypair == subscribed + 1
     IN  Dispatch("connect", NewWaiter("connect", dAppKeypair, NullSecret), NullSecret)
  /\ UNCHANGED <<publicKey, keypair, sharedSecret, session, rendered, microtasks, removed, stale>>

\* the guard of both sign functions, on the cells their closure captured
NotConnected == rendered.sharedSecret = NullSecret \/ rendered.keypair = NoKeypair

\* the request payload {session, transaction | message}
SignBody == Body("object", rendered.session, Undefined, Undefined, Undefined)

\* signTransaction is a plain function: its guard throws to the caller
signTransaction ==
  /\ Idle
  /\ IF NotConnected
       THEN /\ last' = Step("signTransaction", "threw", NullSecret)
            /\ UNCHANGED <<waiters, subscribed, opens>>
       ELSE Dispatch("signTransaction",
                     NewWaiter("signTransaction", NoKeypair, rendered.sharedSecret),
                     encryptPayload(SignBody, rendered.sharedSecret).key)
  /\ UNCHANGED <<publicKey, keypair, sharedSecret, session, rendered, microtasks, removed, stale>>

\* signMessage is an async function: its guard rejects the returned promise
signMessage ==
  /\ Idle
  /\ IF NotConnected
       THEN /\ last' = Step("signMessage", "rejected", NullSecret)
            /\ UNCHANGED <<waiters, subscribed, opens>>
       ELSE Dispatch("signMessage",
                     NewWaiter("signMessage", NoKeypair, rendered.sharedSecret),
                     encryptPayload(SignBody, rendered.sharedSecret).key)
  /\ UNCHANGED <<publicKey, keypair, sharedSecret, session, rendered, microtasks, removed, stale>>

\* history: the connect calls in flight at this disconnect
InFlightConnects ==
  {waiters[i].keypair : i \in {j \in 1..Len(waiters) :
      waiters[j].op = "connect" /\ waiters[j].state = "pending"}}

\* variant: disconnect without setSharedSecret(null)
disconnectKeepsSecret ==
  /\ Idle
  /\ SetCells([NullCells EXCEPT !.sharedSecret = sharedSecret])
  /\ last' = Step("disconnect", "none", NullSecret)
  /\ stale' = InFlightConnects
  /\ UNCHANGED <<rendered, waiters, microtasks, subscribed, removed, opens>>

\* variant: disconnect that also drops the registered listeners
disconnectCancels ==
  /\ Idle
  /\ SetCells(NullCells)
  /\ last' = Step("disconnect", "none", NullSecret)
  /\ stale' = {}
  /\ waiters' = <<>>
  /\ removed' = removed + Len(waiters)
  /\ UNCHANGED <<rendered, microtasks, subscribed, opens>>

disconnect ==
  /\ Idle
  /\ SetCells(NullCells)
  /\ last' = Step("disconnect", "none", NullSecret)
  /\ stale' = InFlightConnects
  /\ UNCHANGED <<rendered, waiters, microtasks, subscribed, removed, opens>>

\* one inbound 'url' event whose URL parses
Deliver ==
  /\ Idle
  /\ \E ev \in Events :
       LET r == Emit(1, ev, waiters, Cells)
       IN  /\ waiters' = r.waiters
           /\ SetCells(r.cells)
           /\ microtasks' = Settled(1, waiters, r.waiters)
           /\ last' = [Step("deliver", "none", NullSecret) EXCEPT
                         !.ev = [pathname |-> ev.pathname, errorCode |-> ev.errorCode]]
  /\ UNCHANGED <<rendered, subscribed, removed, opens, stale>>

\* variant: the exception of new URL() is caught and rejects every waiter
DeliverInvalidUrlRejects ==
  /\ Idle
  /\ waiters # <<>>
  /\ waiters' = [i \in 1..Len(waiters) |-> Settle(waiters[i], "rejected", "Invalid URL", NoInbound)]
  /\ microtasks' = Settled(1, waiters, waiters')
  /\ last' = Step("deliver", "threw", NullSecret)
  /\ UNCHANGED <<publicKey, keypair, sharedSecret, session, rendered,
                 subscribed, removed, opens, stale>>

\* one inbound 'url' event whose URL does not parse: new URL() throws in the
\* first listener, before any route test
DeliverInvalidUrl ==
  /\ Idle
  /\ last' = Step("deliver", "threw", NullSecret)
  /\ UNCHANGED <<publicKey, keypair, sharedSecret, session, rendered, waiters, microtasks,
                 subscribed, removed, opens, stale>>

\* the next queued finally callback; the positions behind the removed
\* listener move up by one
RunMicrotask ==
  /\ microtasks # <<>>
  /\ waiters' = Unsubscribe(waiters, Head(microtasks))
  /\ removed' = removed + (Len(waiters) - Len(waiters'))
  /\ microtasks' = [j \in 1..(Len(microtasks) - 1) |-> microtasks[j + 1] - 1]
  /\ last' = Step("finally", "none", NullSecret)
  /\ stale' = stale \cap {waiters'[i].keypair : i \in 1..Len(waiters')}
  /\ UNCHANGED <<publicKey, keypair, sharedSecret, session, rendered, subscribed, opens>>

\* a render: the sign callbacks are re-created over the current cells
Render ==
  /\ Idle
  /\ rendered # Captured
  /\ rendered' = Captured
  /\ last' = Step("render", "none", NullSecret)
  /\ UNCHANGED <<publicKey, keypair, sharedSecret, session, waiters, microtasks,
                 subscribed, removed, opens, stale>>

Next ==
  \/ connect
  \/ signTransaction
  \/ signMessage
  \/ disconnect
  \/ Deliver
  \/ DeliverInvalidUrl
  \/ RunMicrotask
  \/ Render

Spec == Init /\ [][Next]_vars

\* the microtask queue is drained after every task
FairSpec == Spec /\ WF_vars(RunMicrotask)

\* ------------------------------------------------------------------ claims
Live == 1..Len(waiters)

FullyPresent(c) ==
  /\ c.publicKey # Null
  /\ c.keypair # NoKeypair
  /\ c.sharedSecret # NullSecret
  /\ c.session \notin {Null, Undefined}

SignOps == {"signTransaction", "signMessage"}

\* the route of waiter w occurs in the pathname (written out, independent of RouteTest)
OwnRoute(w, pathname) == \E k \in 1..Len(pathname) : pathname[k] = RouteOf(w.op)

\* C1: in every reachable state the four Session cells are all populated or
\* all null.
C1_SessionAllOrNothing == FullyPresent(Cells) \/ Cells = NullCells

\* C2: a delivery that rejects a connect made on an absent Session (and
\* resolves no other connect) leaves all four cells null.
C2_FailedConnectLeavesNoSession ==
  [][ ( /\ last'.op = "deliver"
        /\ Cells = NullCells
        /\ Len(waiters') = Len(waiters)
        /\ \E i \in Live : /\ waiters[i].op = "connect"
                           /\ waiters[i].state = "pending"
                           /\ waiters'[i].state = "rejected"
        /\ \A i \in Live : waiters[i].op = "connect" => waiters'[i].state # "resolved" )
      => Cells' = NullCells ]_vars

\* C3: a sign call made while the Session is not fully present fails at once
\* (not connected), registers no listener and opens no URL.
C3_SignRequiresFullSession ==
  [][ (last'.op \in SignOps /\ ~FullyPresent(Cells))
      => ( /\ last'.result \in {"threw", "rejected"}
           /\ waiters' = waiters
           /\ subscribed' = subscribed
           /\ opens' = opens ) ]_vars

\* C4: no two pending waiters share a route, and one inbound event settles at
\* most one waiter.
C4_OnePendingPerRoute ==
  /\ \A i, j \in Live :
       (i # j /\ waiters[i].state = "pending" /\ waiters[j].state = "pending")
         => RouteOf(waiters[i].op) # RouteOf(waiters[j].op)
  /\ Len(microtasks) <= 1

\* C5: a waiter is settled, and its handler invoked, only by an event whose
\* pathname carries the waiter's own route; until then it is pending with its
\* handler uninvoked.
C5_RouteIsolation ==
  \A i \in Live :
    /\ waiters[i].state # "pending" => OwnRoute(waiters[i], waiters[i].by.pathname)
    /\ waiters[i].calls > 0 => waiters[i].state # "pending"

\* one waiter settled by its own event while a waiter of another route is
\* still pending, untouched
C5_Witness ==
  \E i, j \in Live :
    /\ RouteOf(waiters[i].op) # RouteOf(waiters[j].op)
    /\ waiters[i].state # "pending"
    /\ waiters[j].state = "pending" /\ waiters[j].calls = 0

\* C6: every listener is removed exactly once, only after its promise has
\* settled, and every settled promise has its listener removed before the next
\* task: the listeners still registered are the calls minus the removals, the
\* queued removals are exactly the settled listeners, each once, and the queue
\* always drains.
C6_Removal ==
  /\ Len(waiters) + removed = subscribed
  /\ \A k \in 1..Len(microtasks) :
       /\ microtasks[k] \in Live
       /\ waiters[microtasks[k]].state # "pending"
       /\ \A m \in 1..Len(microtasks) : microtasks[m] = microtasks[k] => m = k
  /\ \A i \in Live :
       waiters[i].state # "pending" => \E k \in 1..Len(microtasks) : microtasks[k] = i

\* C6: the removal discipline holds in every state, and a non-empty microtask
\* queue always drains (every settled waiter gets its listener removed).
C6_UnsubscribedOnceAfterSettle == []C6_Removal /\ (~Idle ~> Idle)

\* a settled waiter's listener has just been removed; another listener is
\* still registered
C6_Witness ==
  /\ Idle
  /\ removed >= 1
  /\ Len(waiters) >= 1
  /\ last.op = "finally"

\* C7: the handler of one waitForResponse call runs at most once, and an event
\* delivered while no connect is pending (a duplicate onConnect callback among
\* them) leaves the Session cells as they are.
C7_Calls ==
  \A i \in Live :
    /\ waiters[i].calls <= 1
    /\ Idle => (waiters[i].state = "pending" /\ waiters[i].calls = 0)

\* C7: at most one handler call per waiter, none once it has settled, and no
\* rewrite of the Session by an event that finds no pending connect.
C7_FirstMatchOnly ==
  /\ []C7_Calls
  /\ [][ ( /\ last'.op = "deliver"
           /\ \A i \in Live : waiters[i].op = "connect" => waiters[i].state # "pending" )
         => Cells' = Cells ]_vars

\* a second onConnect event, delivered after a connect resolved and its
\* listener was removed, found no listener
C7_Witness ==
  /\ Idle
  /\ last.op = "deliver"
  /\ \E k \in 1..Len(last.ev.pathname) : last.ev.pathname[k] = "onConnect"
  /\ last.ev.errorCode = Null
  /\ FullyPresent(Cells)
  /\ waiters = <<>>

C8_Rejected ==
  \A i \in Live :
    (waiters[i].state # "pending" /\ waiters[i].by.errorCode \notin {Null, ""})
      => ( /\ waiters[i].state = "rejected"
           /\ waiters[i].value = "Error in Phantom Response"
           /\ waiters[i].calls = 0 )

C9_SignLeavesSession ==
  [][ ( \/ last'.op \in SignOps
        \/ /\ last'.op = "deliver"
           /\ Len(waiters') = Len(waiters)
           /\ \A i \in Live : waiters[i].op = "connect" => waiters'[i] = waiters[i] )
      => Cells' = Cells ]_vars

\* a sign operation has been rejected by its callback and the Session is
\* still fully present
C9_Witness ==
  /\ FullyPresent(Cells)
  /\ \E i \in Live : waiters[i].op \in SignOps /\ waiters[i].state = "rejected"
                      /\ waiters[i].calls = 1

\* C10: right after disconnect all four cells are null, and a disconnect that
\* follows a disconnect changes nothing.
C10_DisconnectIdempotent ==
  /\ [](last.op = "disconnect" => Cells = NullCells)
  /\ [][ (last.op = "disconnect" /\ last'.op = "disconnect") => UNCHANGED vars ]_vars

\* disconnect has cleared a Session that the last render still shows connected
C10_Witness ==
  /\ last.op = "disconnect"
  /\ Cells = NullCells
  /\ rendered.keypair # NoKeypair
  /\ rendered.sharedSecret # NullSecret

\* C11: a connect settled by a callback without error code that carries a
\* remote key and an envelope sealed under the secret of that key and this
\* call's keypair, holding an object with a valid public_key, has resolved, and
\* the cells are this call's keypair, that secret, and the payload's session
\* and public_key.
C11_ConnectInstallsPayload ==
  \A i \in Live :
    LET w == waiters[i]
        secret == [dapp |-> w.keypair, remote |-> w.by.pk]
    IN  ( /\ w.op = "connect"
          /\ w.state # "pending"
          /\ w.by.errorCode \in {Null, ""}
          /\ w.by.pk \in RemoteKeys
          /\ w.by.env.present
          /\ w.by.env.key = secret
          /\ w.by.env.body.json = "object"
          /\ w.by.env.body.public_key = "P1" )
        => ( /\ w.state = "resolved"
             /\ keypair = w.keypair
             /\ sharedSecret = secret
             /\ session = w.by.env.body.session
             /\ publicKey = w.by.env.body.public_key )

\* the second keypair's connect has resolved and installed the payload's session
C11_Witness ==
  \E i \in Live :
    /\ waiters[i].op = "connect"
    /\ waiters[i].state = "resolved"
    /\ waiters[i].keypair = 2
    /\ keypair = 2
    /\ session = "s1"
    /\ publicKey = "P1"

\* C12: connect and the sign functions never throw to their caller, and a
\* request the transport failed to dispatch rejects the returned promise.
C12_FailuresReject ==
  /\ last.op \in {"connect"} \cup SignOps => last.result # "threw"
  /\ last.opened = "failed" => last.result = "rejected"

\* C13: a signMessage settled by a callback without error code resolves to the
\* bytes of the payload's signature when the envelope authenticates under the
\* secret the call holds, and is rejected when the envelope does not.
C13_SignMessageRoundTrip ==
  \A i \in Live :
    LET w == waiters[i]
        authentic == w.by.env.present /\ w.by.env.key = w.secret
        sig == w.by.env.body.signature
    IN  (w.op = "signMessage" /\ w.state # "pending" /\ w.by.errorCode \in {Null, ""})
        => ( /\ (authentic /\ w.by.env.body.json = "object" /\ sig = "b58(SIG1)")
                  => (w.state = "resolved" /\ w.value = "SIG1")
             /\ (authentic /\ w.by.env.body.json = "object" /\ sig = "b58(SIG2)")
                  => (w.state = "resolved" /\ w.value = "SIG2")
             /\ ~authentic => w.state = "rejected" )

\* a signMessage has resolved to the second signature
C13_Witness ==
  \E i \in Live :
    /\ waiters[i].op = "signMessage"
    /\ waiters[i].state = "resolved"
    /\ waiters[i].value = "SIG2"
    /\ waiters[i].by.env.key = waiters[i].secret

\* a signMessage has been rejected on an envelope sealed under another key
C13_WitnessRejected ==
  \E i \in Live :
    /\ waiters[i].op = "signMessage"
    /\ waiters[i].state = "rejected"
    /\ waiters[i].by.env.present
    /\ waiters[i].by.env.key # waiters[i].secret

\* C14: while the sharedSecret cell is null (the session has been cleared) no
\* sign request is sealed and no sign handler decrypts.
C14_SecretDiesWithSession ==
  /\ []((last.op \in SignOps /\ last.result = "pending") => sharedSecret # NullSecret)
  /\ [][ (last'.op = "deliver" /\ sharedSecret = NullSecret /\ Len(waiters') = Len(waiters))
         => \A i \in Live :
              waiters[i].op \in SignOps => waiters'[i].calls = waiters[i].calls ]_vars

\* C15: a connect that was in flight when disconnect was called never
\* resolves (never installs a Session).
C15_NoInstallAfterDisconnect ==
  \A i \in Live :
    ~ ( /\ waiters[i].op = "connect"
        /\ waiters[i].keypair \in stale
        /\ waiters[i].state = "resolved" )

\* C16: when Linking.openURL is called the listener of the call's route is
\* already registered, and a parsed event whose pathname carries the route of a
\* pending waiter settles that waiter.
C16_SubscribedBeforeOpen ==
  /\ []((last.op \in {"connect"} \cup SignOps /\ last.result = "pending") => last.listening)
  /\ [][ (last'.op = "deliver" /\ Len(waiters') = Len(waiters))
         => \A i \in Live :
              (waiters[i].state = "pending" /\ OwnRoute(waiters[i], last'.ev.pathname))
                => waiters'[i].state # "pending" ]_vars

\* a dispatched sign request has been answered and its waiter settled
C16_Witness ==
  /\ last.op = "deliver"
  /\ \E i \in Live : /\ waiters[i].op \in SignOps
                     /\ waiters[i].state = "resolved"
                     /\ OwnRoute(waiters[i], last.ev.pathname)

IsPending(w) == w.state = "pending"

Pending(ws) == SelectSeq(ws, IsPending)

\* C17: a pending waiter stays pending, registered and untouched in every step
\* except the delivery of an event whose pathname carries its route.
C17_SettlesOnlyOnOwnEvent ==
  [][ IF last'.op = "deliver" /\ Len(waiters') = Len(waiters)
        THEN \A i \in Live :
               (waiters[i].state = "pending" /\ ~OwnRoute(waiters[i], last'.ev.pathname))
                 => waiters'[i] = waiters[i]
        ELSE /\ Len(Pending(waiters')) >= Len(Pending(waiters))
             /\ SubSeq(Pending(waiters'), 1, Len(Pending(waiters))) = Pending(waiters) ]_vars

\* an event of another route, and a dispatch that failed, have left a waiter pending
C17_Witness ==
  /\ Idle
  /\ last.op = "deliver"
  /\ last.ev.pathname # <<>>
  /\ \E i \in Live : waiters[i].state = "pending" /\ ~OwnRoute(waiters[i], last.ev.pathname)

\* C18: disconnect calls Linking.openURL zero times and leaves the registered
\* listeners, their promises and the queued callbacks as they are.
C18_DisconnectLocal ==
  [][ last'.op = "disconnect"
      => ( /\ opens' = opens
           /\ waiters' = waiters
           /\ microtasks' = microtasks
           /\ subscribed' = subscribed
           /\ removed' = removed
           /\ rendered' = rendered ) ]_vars

\* disconnect has run while a request was pending
C18_Witness ==
  /\ last.op = "disconnect"
  /\ Cells = NullCells
  /\ opens >= 1
  /\ \E i \in Live : waiters[i].state = "pending"

====
